---- MODULE Spec2Model ----
(***************************************************************************)
(* News RAG backend: src/app.py (FastAPI endpoints /api/retrieval and      *)
(* /api/completion, API key check, daily chat log) and src/rag_service.py  *)
(* (extract_queries_and_date_filters, retrieve_news, generate_rag_response,*)
(* respond).                                                               *)
(*                                                                         *)
(* Python text is a sequence of one-character strings, so that joining,    *)
(* repr() and strptime() are computed character by character.  JSON values *)
(* are tagged records.  A Python dict is a function whose DOMAIN is its    *)
(* key set.  The two language-model calls and the vector store are remote  *)
(* services: their answers are drawn from small sets.                      *)
(***************************************************************************)
EXTENDS Integers, Sequences, FiniteSets, TLC

VARIABLES
    secret,     \* os.getenv("APP_API_KEY"): None when unset, else a str
    today,      \* the calendar day, which names the chat log file
    logs,       \* logs[d]: the records of logs/<d>_chat_log.txt, in file order
    responses,  \* the HTTP responses sent so far, in order
    pc,         \* where the request being served stands
    req,        \* the request being served, None when idle
    extracted,  \* what extract_queries_and_date_filters returned, else None
    articles,   \* what retrieve_news returned, else None
    calls,      \* the remote calls this request has made, with their answers
    outcome,    \* what the handler returned or raised, None while it runs
    collection  \* the documents of the news_rag collection (never written)

vars == <<secret, today, logs, responses, pc, req, extracted, articles, calls,
          outcome, collection>>

(***************************************************************************)
(* Bounds of the model.                                                    *)
(***************************************************************************)
MaxRequests == 2
MaxDay == 2
MaxK == 2

(***************************************************************************)
(* Python and JSON values.                                                 *)
(***************************************************************************)
None == [t |-> "None"]
JNull == [t |-> "null"]
JStr(s) == [t |-> "str", s |-> s]
JNum(n) == [t |-> "num", n |-> n]
JList(items) == [t |-> "list", items |-> items]
JObj(d) == [t |-> "obj", d |-> d]
EmptyDict == [key \in {} |-> JNull]

RECURSIVE Concat(_)
Concat(ss) == IF ss = <<>> THEN <<>> ELSE Head(ss) \o Concat(Tail(ss))

(* sep.join(items) of Python: the items in order, sep between neighbours.  *)
RECURSIVE JoinWith(_, _)
JoinWith(sep, items) ==
    IF items = <<>> THEN <<>>
    ELSE IF Len(items) = 1 THEN Head(items)
    ELSE Head(items) \o sep \o JoinWith(sep, Tail(items))

(* `needle in hay` for Python strings.                                     *)
Contains(hay, needle) ==
    \E i \in 1..(Len(hay) - Len(needle) + 1) :
        SubSeq(hay, i, i + Len(needle) - 1) = needle

StartsWith(s, prefix) ==
    Len(s) >= Len(prefix) /\ SubSeq(s, 1, Len(prefix)) = prefix

(***************************************************************************)
(* datetime.strptime(value, "%Y-%m-%d"), rag_service.py:202 and :209.      *)
(* %Y is exactly four digits, %m is 1[0-2]|0[1-9]|[1-9], %d is             *)
(* 3[01]|[12]\d|0[1-9]|[1-9]| [1-9]; the whole text must be consumed and   *)
(* the date must exist.  A value that is not a str raises TypeError.       *)
(***************************************************************************)
Digits == {"0", "1", "2", "3", "4", "5", "6", "7", "8", "9"}

DigitVal(c) ==
    CASE c = "0" -> 0 [] c = "1" -> 1 [] c = "2" -> 2 [] c = "3" -> 3
      [] c = "4" -> 4 [] c = "5" -> 5 [] c = "6" -> 6 [] c = "7" -> 7
      [] c = "8" -> 8 [] c = "9" -> 9

IsLeap(y) == (y % 4 = 0 /\ y % 100 # 0) \/ y % 400 = 0

DaysInMonth(y, m) ==
    IF m = 2 THEN (IF IsLeap(y) THEN 29 ELSE 28)
    ELSE IF m \in {4, 6, 9, 11} THEN 30 ELSE 31

(* Length of the text matched by the %m directive at the head of s, or 0.  *)
MonthLen(s) ==
    IF Len(s) >= 2 /\ ((s[1] = "1" /\ s[2] \in {"0", "1", "2"})
                       \/ (s[1] = "0" /\ s[2] \in Digits \ {"0"})) THEN 2
    ELSE IF Len(s) >= 1 /\ s[1] \in Digits \ {"0"} THEN 1
    ELSE 0

(* Length of the text matched by the %d directive at the head of s, or 0.  *)
DayLen(s) ==
    IF Len(s) >= 2 /\ ((s[1] = "3" /\ s[2] \in {"0", "1"})
                       \/ (s[1] \in {"1", "2"} /\ s[2] \in Digits)
                       \/ (s[1] = "0" /\ s[2] \in Digits \ {"0"})) THEN 2
    ELSE IF Len(s) >= 1 /\ s[1] \in Digits \ {"0"} THEN 1
    ELSE IF Len(s) >= 2 /\ s[1] = " " /\ s[2] \in Digits \ {"0"} THEN 2
    ELSE 0

RECURSIVE NumVal(_)
NumVal(s) ==
    IF s = <<>> THEN 0
    ELSE IF s[Len(s)] = " " THEN NumVal(SubSeq(s, 1, Len(s) - 1))
    ELSE 10 * NumVal(SubSeq(s, 1, Len(s) - 1)) + DigitVal(s[Len(s)])

ValueError == [exc |-> "ValueError"]
TypeError == [exc |-> "TypeError"]

StrptimeText(s) ==
    IF ~(Len(s) >= 5 /\ (\A i \in 1..4 : s[i] \in Digits) /\ s[5] = "-")
    THEN ValueError
    ELSE LET afterY == SubSeq(s, 6, Len(s))
             ml == MonthLen(afterY)
         IN IF ml = 0 \/ Len(afterY) < ml + 1 \/ afterY[ml + 1] # "-"
            THEN ValueError
            ELSE LET afterM == SubSeq(afterY, ml + 2, Len(afterY))
                     dl == DayLen(afterM)
                     y == NumVal(SubSeq(s, 1, 4))
                     m == NumVal(SubSeq(afterY, 1, ml))
                     d == NumVal(SubSeq(afterM, 1, dl))
                 IN IF dl = 0 \/ Len(afterM) # dl THEN ValueError
                    ELSE IF y < 1 \/ d > DaysInMonth(y, m) THEN ValueError
                    ELSE [exc |-> "none", y |-> y, m |-> m, d |-> d]

Strptime(value) ==
    IF value.t = "str" THEN StrptimeText(value.s) ELSE TypeError

(***************************************************************************)
(* repr() of a Python str, as str() of a list of dicts applies it to every *)
(* key and value (app.py:117, str(request.messages)): the text is quoted   *)
(* with ' unless it holds a ' and no ", and the backslash, the quote in    *)
(* use and the newline are written as escapes.                             *)
(***************************************************************************)
Chars(s) == {s[i] : i \in 1..Len(s)}

QuoteFor(s) == IF "'" \in Chars(s) /\ "\"" \notin Chars(s) THEN "\"" ELSE "'"

ReprChar(c, q) ==
    CASE c = "\\" -> <<"\\", "\\">>
      [] c = "\n" -> <<"\\", "n">>
      [] c = q -> <<"\\", q>>
      [] OTHER -> <<c>>

ReprBody(s, q) == Concat([i \in 1..Len(s) |-> ReprChar(s[i], q)])

Repr(s) == <<QuoteFor(s)>> \o ReprBody(s, QuoteFor(s)) \o <<QuoteFor(s)>>

RoleText(role) ==
    CASE role = "user" -> <<"u", "s", "e", "r">>
      [] role = "assistant" -> <<"a", "s", "s", "i", "s", "t", "a", "n", "t">>
      [] role = "system" -> <<"s", "y", "s", "t", "e", "m">>

(* str() of one message dict: {'role': '...', 'content': '...'}            *)
StrMessage(msg) ==
    <<"{", "'", "r", "o", "l", "e", "'", ":", " ">> \o Repr(RoleText(msg.role))
    \o <<",", " ", "'", "c", "o", "n", "t", "e", "n", "t", "'", ":", " ">>
    \o Repr(msg.content) \o <<"}">>

(* str(request.messages): the list of message dicts.                       *)
StrMessages(messages) ==
    <<"[">> \o JoinWith(<<",", " ">>,
                        [i \in 1..Len(messages) |-> StrMessage(messages[i])])
    \o <<"]">>

(***************************************************************************)
(* The most recent user message, app.py:103-104 and rag_service.py:130-131:*)
(* next((msg["content"] for msg in reversed(messages)                      *)
(*       if msg["role"] == "user"), "")                                    *)
(***************************************************************************)
UserIndexes(messages) == {i \in 1..Len(messages) : messages[i].role = "user"}

LastOf(S) == CHOOSE i \in S : \A j \in S : j <= i

(* A faulty variant: the content of the last message, whatever its role.   *)
LastMessageContent(messages) ==
    IF messages = <<>> THEN <<>> ELSE messages[Len(messages)].content

LastUserMessage(messages) ==
    IF UserIndexes(messages) = {} THEN <<>>
    ELSE messages[LastOf(UserIndexes(messages))].content

(***************************************************************************)
(* Python truth value and " ".join(...) of a JSON value, as                *)
(* rag_service.py:262 applies them to extracted["queries"].                *)
(***************************************************************************)
Truthy(v) ==
    CASE v.t = "list" -> v.items # <<>>
      [] v.t = "str" -> v.s # <<>>
      [] v.t = "num" -> v.n # 0
      [] v.t = "obj" -> DOMAIN v.d # {}
      [] OTHER -> FALSE

(* " ".join(v): a list of str joins its items, a str joins its characters, *)
(* anything else raises TypeError.                                         *)
SpaceJoin(v) ==
    IF v.t = "list" /\ \A i \in 1..Len(v.items) : v.items[i].t = "str"
    THEN [exc |-> "none",
          s |-> JoinWith(<<" ">>, [i \in 1..Len(v.items) |-> v.items[i].s])]
    ELSE IF v.t = "str"
    THEN [exc |-> "none",
          s |-> JoinWith(<<" ">>, [i \in 1..Len(v.s) |-> <<v.s[i]>>])]
    ELSE TypeError

(***************************************************************************)
(* extract_queries_and_date_filters, rag_service.py:31-114.  The reply of  *)
(* the chat model is [kind |-> "error"] when the call raises, else         *)
(* [kind |-> "message", content |-> c] with c None, a text that is not     *)
(* JSON ([json |-> FALSE, s |-> text]) or a JSON text, given by the value  *)
(* it parses to ([json |-> TRUE, value |-> v]).                            *)
(***************************************************************************)
Raised(r) == r.exc # "none"

(* json.loads(content), rag_service.py:94.                                 *)
JsonLoads(content) ==
    IF content = None THEN TypeError
    ELSE IF ~content.json THEN [exc |-> "JSONDecodeError"]
    ELSE [exc |-> "none", value |-> content.value]

KeyText(key) ==
    CASE key = "gte" -> <<"g", "t", "e">>
      [] key = "lte" -> <<"l", "t", "e">>

(* `key in v` of Python for a parsed JSON value v.                         *)
KeyIn(key, v) ==
    CASE v.t = "obj" -> [exc |-> "none", b |-> key \in DOMAIN v.d]
      [] v.t = "str" -> [exc |-> "none", b |-> Contains(v.s, KeyText(key))]
      [] v.t = "list" ->
           [exc |-> "none",
            b |-> \E i \in 1..Len(v.items) : v.items[i] = JStr(KeyText(key))]
      [] OTHER -> TypeError

Put(d, key, value) ==
    [x \in DOMAIN d \cup {key} |-> IF x = key THEN value ELSE d[x]]

(* if key in date_filter: result["date_filter"][key] = date_filter[key]    *)
(* rag_service.py:105-108; out is result["date_filter"] so far.            *)
CopyBound(date_filter, key, out) ==
    IF Raised(KeyIn(key, date_filter)) THEN KeyIn(key, date_filter)
    ELSE IF ~KeyIn(key, date_filter).b THEN [exc |-> "none", d |-> out]
    ELSE IF date_filter.t # "obj" THEN TypeError
    ELSE [exc |-> "none", d |-> Put(out, key, date_filter.d[key])]

(* rag_service.py:96-110, from the parsed JSON value to the result.        *)
BuildResult(data) ==
    IF data.t # "obj" THEN [exc |-> "AttributeError"]
    ELSE LET queries == IF "queries" \in DOMAIN data.d
                        THEN data.d["queries"] ELSE JList(<<>>)
         IN IF "date_filter" \notin DOMAIN data.d
            THEN [exc |-> "none",
                  result |-> [queries |-> queries, date_filter |-> EmptyDict]]
            ELSE LET g == CopyBound(data.d["date_filter"], "gte", EmptyDict)
                 IN IF Raised(g) THEN g
                    ELSE LET l == CopyBound(data.d["date_filter"], "lte", g.d)
                         IN IF Raised(l) THEN l
                            ELSE [exc |-> "none",
                                  result |-> [queries |-> queries,
                                              date_filter |-> l.d]]

JSONDecodeErrorFallback ==
    [queries |-> JList(<<>>), date_filter |-> EmptyDict,
     error |-> "JSONDecodeError"]

(* A faulty variant: no except clause, the JSONDecodeError escapes.        *)
ExtractNoExcept(reply) ==
    IF reply.kind = "error" THEN [exc |-> "APIError"]
    ELSE IF Raised(JsonLoads(reply.content)) THEN JsonLoads(reply.content)
    ELSE BuildResult(JsonLoads(reply.content).value)

ExtractQueriesAndDateFilters(reply) ==
    IF reply.kind = "error" THEN [exc |-> "APIError"]
    ELSE IF JsonLoads(reply.content).exc = "JSONDecodeError"
    THEN [exc |-> "none", result |-> JSONDecodeErrorFallback]
    ELSE IF Raised(JsonLoads(reply.content)) THEN JsonLoads(reply.content)
    ELSE BuildResult(JsonLoads(reply.content).value)

(***************************************************************************)
(* retrieve_news, rag_service.py:181-244.                                  *)
(***************************************************************************)
DefaultMaxResults == 5

(* One bound, rag_service.py:200-205 and 207-212: the parsed date, None    *)
(* when the key is absent or strptime raised ValueError; any other         *)
(* exception of strptime leaves retrieve_news.                             *)
ParseBound(date_filters, key) ==
    IF key \notin DOMAIN date_filters THEN [exc |-> "none", date |-> None]
    ELSE IF Strptime(date_filters[key]).exc = "ValueError"
    THEN [exc |-> "none", date |-> None]
    ELSE IF Raised(Strptime(date_filters[key]))
    THEN Strptime(date_filters[key])
    ELSE [exc |-> "none",
          date |-> [y |-> Strptime(date_filters[key]).y,
                    m |-> Strptime(date_filters[key]).m,
                    d |-> Strptime(date_filters[key]).d]]

(* rag_service.py:193-226: filter_condition, None or                       *)
(* Filter(must=[FieldCondition(key="metadata.date", range=date_range)]).   *)
FilterCondition(date_filters) ==
    IF DOMAIN date_filters = {} THEN [exc |-> "none", filter |-> None]
    ELSE LET g == ParseBound(date_filters, "gte")
         IN IF Raised(g) THEN g
            ELSE LET l == ParseBound(date_filters, "lte")
                 IN IF Raised(l) THEN l
                    ELSE IF g.date # None \/ l.date # None
                    THEN [exc |-> "none",
                          filter |-> [must |-> << [key |-> "metadata.date",
                                                   gte |-> g.date,
                                                   lte |-> l.date] >>]]
                    ELSE [exc |-> "none", filter |-> None]

(* A faulty variant: the search is asked for one document too many.       *)
SearchCallOneMore(query, max_results, filter) ==
    [step |-> "search", query |-> query, k |-> max_results + 1,
     filter |-> filter]

(* The call retrieve_news makes, rag_service.py:229-233.                   *)
SearchCall(query, max_results, filter) ==
    [step |-> "search", query |-> query, k |-> max_results, filter |-> filter]

Get(d, key, default) == IF key \in DOMAIN d THEN d[key] ELSE default

(* rag_service.py:236-242.                                                 *)
FormatResults(results) ==
    [i \in 1..Len(results) |->
        [title |-> results[i].page_content,
         url |-> Get(results[i].metadata, "url", <<"#">>),
         date |-> Get(results[i].metadata, "date",
                      <<"U", "n", "k", "n", "o", "w", "n", " ",
                        "d", "a", "t", "e">>)]]

(***************************************************************************)
(* The vector store behind vector_store.similarity_search(query, k,        *)
(* filter), rag_service.py:229-233: it raises, or it returns at most k     *)
(* documents of the collection that pass the filter, in ranked order.  The *)
(* ranking is the store's: any order is possible.                          *)
(***************************************************************************)
DocDated ==
    [page_content |-> <<"t", "1">>,
     metadata |-> [url |-> <<"u", "1">>,
                   date |-> <<"2", "0", "2", "4", "-", "0", "1", "-", "1", "5">>]]

DocNoUrl ==
    [page_content |-> <<"t", "2">>,
     metadata |-> [date |-> <<"2", "0", "2", "3", "-", "1", "2", "-", "3", "1">>]]

DocNoDate ==
    [page_content |-> <<"t", "3">>, metadata |-> [url |-> <<"u", "3">>]]

Docs == {DocDated, DocNoUrl, DocNoDate}

DateKey(date) == date.y * 10000 + date.m * 100 + date.d

InRange(date, range) ==
    /\ range.gte # None => DateKey(range.gte) <= DateKey(date)
    /\ range.lte # None => DateKey(date) <= DateKey(range.lte)

Matches(doc, filter) ==
    \/ filter = None
    \/ /\ "date" \in DOMAIN doc.metadata
       /\ ~Raised(StrptimeText(doc.metadata["date"]))
       /\ \A i \in 1..Len(filter.must) :
              InRange(StrptimeText(doc.metadata["date"]), filter.must[i])

Min(a, b) == IF a <= b THEN a ELSE b

Rankings(S, k) ==
    UNION { { r \in [1..n -> S] : \A i, j \in 1..n : i # j => r[i] # r[j] } :
            n \in 0..Min(k, Cardinality(S)) }

StoreAnswers(call) ==
    {[kind |-> "error"]}
    \cup { [kind |-> "results", docs |-> r] :
           r \in Rankings({d \in collection : Matches(d, call.filter)}, call.k) }

(***************************************************************************)
(* generate_rag_response, rag_service.py:116-177: the question and the     *)
(* context block sent to the chat model.                                   *)
(***************************************************************************)
DigitChar(d) ==
    CASE d = 0 -> "0" [] d = 1 -> "1" [] d = 2 -> "2" [] d = 3 -> "3"
      [] d = 4 -> "4" [] d = 5 -> "5" [] d = 6 -> "6" [] d = 7 -> "7"
      [] d = 8 -> "8" [] d = 9 -> "9"

RECURSIVE IntText(_)
IntText(n) ==
    IF n < 10 THEN <<DigitChar(n)>>
    ELSE IntText(n \div 10) \o <<DigitChar(n % 10)>>

(* f"Source {i+1}: {news['title']}\nURL: {news['url']}\n\n" for each news. *)
Context(retrieved_news) ==
    Concat([i \in 1..Len(retrieved_news) |->
        <<"S", "o", "u", "r", "c", "e", " ">> \o IntText(i) \o <<":", " ">>
        \o retrieved_news[i].title \o <<"\n", "U", "R", "L", ":", " ">>
        \o retrieved_news[i].url \o <<"\n", "\n">>])

GenerateCall(messages, retrieved_news) ==
    [step |-> "generate", question |-> LastUserMessage(messages),
     context |-> Context(retrieved_news)]

(***************************************************************************)
(* Inputs.                                                                 *)
(***************************************************************************)
TextAI == <<"a", "i">>
TextEU == <<"e", "u">>
TextTwoLines == <<"a", "i", "\n", "e", "u">>

User(c) == [role |-> "user", content |-> c]
Assistant(c) == [role |-> "assistant", content |-> c]
System(c) == [role |-> "system", content |-> c]

Transcripts ==
    { <<User(TextEU), User(TextTwoLines), System(TextAI)>>,
      <<Assistant(TextAI)>> }

Queries == {TextAI, TextTwoLines}

Histories == { << <<TextEU, TextAI>> >> }

ApiKey == <<"k">>

Headers == { EmptyDict, [x \in {"x-api-key"} |-> <<"w">>],
             [x \in {"x-api-key"} |-> ApiKey] }

HttpRequests ==
    { [endpoint |-> "retrieval", headers |-> h, query |-> TextTwoLines] :
      h \in Headers }
    \cup { [endpoint |-> "completion", headers |-> h, messages |-> m] :
           h \in Headers, m \in Transcripts }

DateValid == JStr(<<"2", "0", "2", "4", "-", "0", "1", "-", "0", "1">>)
DateUnpadded == JStr(<<"2", "0", "2", "4", "-", "6", "-", "3", "0">>)
DateMalformed == JStr(<<"0", "1", "/", "0", "1", "/", "2", "0", "2", "4">>)
DateImpossible == JStr(<<"2", "0", "2", "4", "-", "0", "2", "-", "3", "0">>)
DateNumber == JNum(20240101)

Dicts(keys, values) == UNION { [K -> values] : K \in SUBSET keys }

(* The JSON objects the extraction model may answer with.                  *)
JsonObjects(queryValues, dateFilterValues) ==
    { JObj(d) : d \in
        { EmptyDict }
        \cup { [x \in {"queries"} |-> q] : q \in queryValues }
        \cup { [x \in {"date_filter"} |-> f] : f \in dateFilterValues }
        \cup { [x \in {"queries", "date_filter"} |->
                   IF x = "queries" THEN q ELSE f] :
               q \in queryValues, f \in dateFilterValues } }

Replies(values) ==
    {[kind |-> "error"]}
    \cup { [kind |-> "message", content |-> c] :
           c \in {None, [json |-> FALSE, s |-> <<>>],
                  [json |-> FALSE, s |-> <<"s", "o", "r", "r", "y">>]}
                 \cup { [json |-> TRUE, value |-> v] : v \in values } }

(* Replies to the extraction call, for the functions called directly.      *)
ExtractionReplies ==
    Replies({JNull, JList(<<>>)}
            \cup JsonObjects(
                   { JList(<<>>), JList(<<JStr(TextAI)>>),
                     JList(<<JStr(TextEU), JStr(TextAI)>>), JNull,
                     JStr(TextAI), JList(<<JNum(1)>>) },
                   { JObj(d) : d \in Dicts({"gte", "lte"},
                         {DateValid, DateUnpadded, DateMalformed,
                          DateImpossible, DateNumber, JNull}) }
                   \cup { JNull, JStr(<<"2", "0", "2", "4">>),
                          JStr(<<"g", "t", "e">>) }))

(* Replies to the extraction call, for the server.                         *)
ServerExtractionReplies ==
    { [kind |-> "error"],
      [kind |-> "message",
       content |-> [json |-> FALSE, s |-> <<"s", "o", "r", "r", "y">>]] }
    \cup { [kind |-> "message", content |-> [json |-> TRUE, value |-> JObj(d)]] :
           d \in { [queries |-> JList(<<JStr(TextEU), JStr(TextAI)>>)],
                   [queries |-> JList(<<>>),
                    date_filter |-> JObj([gte |-> DateValid])],
                   [queries |-> JList(<<JStr(TextAI)>>),
                    date_filter |-> JObj([gte |-> DateNumber])],
                   [date_filter |-> JObj([gte |-> DateMalformed,
                                          lte |-> DateValid])] } }

GenerationReplies ==
    { [kind |-> "error"], [kind |-> "message", content |-> <<"o", "k">>] }

LibraryCalls ==
    { [endpoint |-> "library", messages |-> <<User(q)>>, query |-> q, k |-> k] :
      q \in Queries, k \in 1..MaxK \cup {DefaultMaxResults} }

(***************************************************************************)
(* The API key check, app.py:49-61.                                        *)
(***************************************************************************)
GetApiKeyHeader(headers) == Get(headers, "x-api-key", <<>>)

(* A faulty variant: a request without a key is let through.               *)
AcceptEmptyKey(headers, configured) ==
    IF GetApiKeyHeader(headers) # <<>> /\ JStr(GetApiKeyHeader(headers)) # configured
    THEN [exc |-> "HTTPException", status |-> 401]
    ELSE [exc |-> "none", api_key |-> GetApiKeyHeader(headers)]

GetApiKey(headers, configured) ==
    IF JStr(GetApiKeyHeader(headers)) # configured
    THEN [exc |-> "HTTPException", status |-> 401]
    ELSE [exc |-> "none", api_key |-> GetApiKeyHeader(headers)]

(***************************************************************************)
(* The handlers, app.py:77-121, and respond, rag_service.py:247-271.       *)
(***************************************************************************)
IsHttp(r) == r.endpoint \in {"retrieval", "completion"}

(* respond builds the transcript from the Gradio history, lines 250-256.   *)
RespondMessages(message, history) ==
    Concat([i \in 1..Len(history) |->
               <<User(history[i][1]), Assistant(history[i][2])>>])
    \o <<User(message)>>

(* The transcript given to extract_queries_and_date_filters:               *)
(* app.py:85, app.py:108, rag_service.py:259.                              *)
MessagesOf(r) ==
    IF r.endpoint = "retrieval" THEN <<User(r.query)>> ELSE r.messages

(* The query given to retrieve_news: app.py:86 (request.query),            *)
(* app.py:109 (last_message), rag_service.py:262 (respond).                *)
RespondQuery(message, queries) ==
    IF Truthy(queries) THEN SpaceJoin(queries)
    ELSE [exc |-> "none", s |-> message]

QueryText(r, ex) ==
    CASE r.endpoint = "completion" ->
           [exc |-> "none", s |-> LastUserMessage(r.messages)]
      [] r.endpoint = "respond" -> RespondQuery(r.message, ex.queries)
      [] OTHER -> [exc |-> "none", s |-> r.query]

MaxResults(r) == IF r.endpoint = "library" THEN r.k ELSE DefaultMaxResults

(* The question of the log record: app.py:90 and app.py:117.               *)
LoggedQuestion(r) ==
    IF r.endpoint = "retrieval" THEN r.query ELSE StrMessages(r.messages)

(* str(e) and traceback.format_exc() are one opaque element each.          *)
Detail(exc) ==
    <<exc, "\n", "S", "t", "a", "c", "k", " ", "T", "r", "a", "c", "e", ":",
      "\n", "traceback">>

ErrorAnswer(exc) == <<"E", "R", "R", "O", "R", ":", " ">> \o Detail(exc)

(* A faulty variant: the file of the day is opened with "w", not "a".      *)
OverwriteLog(question, answer) ==
    [logs EXCEPT ![today] =
        << [time |-> today, question |-> question, answer |-> answer] >>]

(* write_log, app.py:66-75: one record appended to the file of the day.    *)
WriteLog(question, answer) ==
    [logs EXCEPT ![today] =
        Append(@, [time |-> today, question |-> question, answer |-> answer])]

(* A faulty variant: the exception is ignored and the pipeline goes on.    *)
SkipFailure(exc) ==
    /\ pc' = "generate"
    /\ UNCHANGED <<logs, outcome>>

(* A faulty variant: the exception becomes an empty result with HTTP 200.  *)
SwallowFailure(exc) ==
    /\ pc' = "done"
    /\ UNCHANGED logs
    /\ outcome' = [kind |-> "http", status |-> 200, body |-> <<>>]

(* An exception inside the try block: app.py:88-94 and 115-121 log it and  *)
(* raise HTTPException(500); respond and a direct caller just see it.      *)
Fail(exc) ==
    /\ pc' = "done"
    /\ IF IsHttp(req)
       THEN /\ logs' = WriteLog(LoggedQuestion(req), ErrorAnswer(exc))
            /\ outcome' = [kind |-> "http", status |-> 500, exc |-> exc,
                           detail |-> Detail(exc)]
       ELSE /\ UNCHANGED logs
            /\ outcome' = [kind |-> "raised", exc |-> exc]

Return(r, value) ==
    IF IsHttp(r) THEN [kind |-> "http", status |-> 200, body |-> value]
    ELSE [kind |-> "returned", value |-> value]

Init ==
    /\ secret \in {None, JStr(ApiKey)}
    /\ today = 1
    /\ logs = [d \in 1..MaxDay |-> <<>>]
    /\ responses = <<>>
    /\ pc = "idle"
    /\ req = None
    /\ extracted = None
    /\ articles = None
    /\ calls = <<>>
    /\ outcome = None
    /\ collection = {DocDated, DocNoUrl}

(* A request arrives at /api/retrieval or /api/completion.                 *)
Receive ==
    /\ pc = "idle"
    /\ Len(responses) < MaxRequests
    /\ \E r \in HttpRequests : req' = r
    /\ pc' = "auth"
    /\ UNCHANGED <<collection, secret, today, logs, responses, extracted, articles, calls,
                   outcome>>

(* Depends(get_api_key) runs before the handler body.                      *)
Authenticate ==
    /\ pc = "auth"
    /\ IF Raised(GetApiKey(req.headers, secret))
       THEN /\ pc' = "done"
            /\ outcome' = [kind |-> "http", status |-> 401,
                           detail |-> <<"Invalid API Key">>]
       ELSE /\ pc' = "extract"
            /\ UNCHANGED outcome
    /\ UNCHANGED <<collection, secret, today, logs, responses, req, extracted, articles,
                   calls>>

(* respond(message, history) is called.                                    *)
CallRespond ==
    /\ pc = "idle"
    /\ \E message \in {TextAI}, history \in Histories :
           req' = [endpoint |-> "respond", message |-> message,
                   history |-> history,
                   messages |-> RespondMessages(message, history)]
    /\ pc' = "extract"
    /\ UNCHANGED <<collection, secret, today, logs, responses, extracted, articles, calls,
                   outcome>>

(* extract_queries_and_date_filters(messages), with the model's reply.     *)
ExtractStep(replies) ==
    /\ pc = "extract"
    /\ \E reply \in replies :
           /\ calls' = Append(calls, [step |-> "extract",
                                      messages |-> MessagesOf(req),
                                      reply |-> reply])
           /\ IF Raised(ExtractQueriesAndDateFilters(reply))
              THEN /\ Fail(ExtractQueriesAndDateFilters(reply).exc)
                   /\ UNCHANGED extracted
              ELSE /\ extracted' = ExtractQueriesAndDateFilters(reply).result
                   /\ pc' = "search"
                   /\ UNCHANGED <<logs, outcome>>
    /\ UNCHANGED <<collection, secret, today, responses, req, articles>>

(* retrieve_news(query, extracted["date_filter"], max_results), with the   *)
(* store's answer.                                                         *)
SearchStep ==
    /\ pc = "search"
    /\ LET q == QueryText(req, extracted)
           f == FilterCondition(extracted.date_filter)
       IN IF Raised(q)
          THEN Fail(q.exc) /\ UNCHANGED <<calls, articles>>
          ELSE IF Raised(f)
          THEN Fail(f.exc) /\ UNCHANGED <<calls, articles>>
          ELSE \E answer \in StoreAnswers(SearchCall(q.s, MaxResults(req), f.filter)) :
                 /\ calls' = Append(calls,
                        Put(SearchCall(q.s, MaxResults(req), f.filter),
                            "answer", answer))
                 /\ IF answer.kind = "error"
                    THEN Fail("StoreError") /\ UNCHANGED articles
                    ELSE /\ articles' = FormatResults(answer.docs)
                         /\ UNCHANGED logs
                         /\ IF req.endpoint \in {"retrieval", "library"}
                            THEN /\ pc' = "done"
                                 /\ outcome' = Return(req, FormatResults(answer.docs))
                            ELSE /\ pc' = "generate"
                                 /\ UNCHANGED outcome
    /\ UNCHANGED <<collection, secret, today, responses, req, extracted>>

(* generate_rag_response(messages, articles), with the model's reply.      *)
GenerateStep ==
    /\ pc = "generate"
    /\ \E reply \in GenerationReplies :
           /\ calls' = Append(calls, Put(GenerateCall(req.messages, articles),
                                         "reply", reply))
           /\ IF reply.kind = "error"
              THEN Fail("APIError")
              ELSE /\ pc' = "done"
                   /\ outcome' = Return(req, reply.content)
                   /\ UNCHANGED logs
    /\ UNCHANGED <<collection, secret, today, responses, req, extracted, articles>>

(* The response leaves; the handler's locals are gone.                     *)
ResponseOf(o) ==
    CASE o.status = 200 -> [status |-> 200]
      [] OTHER -> [status |-> o.status, detail |-> o.detail]

Finish ==
    /\ pc = "done"
    /\ responses' = IF outcome.kind = "http"
                    THEN Append(responses, ResponseOf(outcome)) ELSE responses
    /\ pc' = "idle"
    /\ req' = None
    /\ extracted' = None
    /\ articles' = None
    /\ calls' = <<>>
    /\ outcome' = None
    /\ UNCHANGED <<collection, secret, today, logs>>

(* The date changes.  Only write_log reads the date, so a change while a   *)
(* request is served is the same as one just before it arrived.            *)
Midnight ==
    /\ pc = "idle"
    /\ today < MaxDay
    /\ today' = today + 1
    /\ UNCHANGED <<collection, secret, logs, responses, pc, req, extracted, articles, calls,
                   outcome>>

ServerExtract == ExtractStep(ServerExtractionReplies)

Next ==
    \/ Receive
    \/ Authenticate
    \/ CallRespond
    \/ ServerExtract
    \/ SearchStep
    \/ GenerateStep
    \/ Finish
    \/ Midnight

Spec == Init /\ [][Next]_vars

(***************************************************************************)
(* The two functions called directly: extract_queries_and_date_filters on  *)
(* a one-message transcript, then retrieve_news with the extracted date    *)
(* filter and any max_results.                                             *)
(***************************************************************************)
InitFunctions ==
    /\ secret = None
    /\ today = 1
    /\ logs = [d \in 1..MaxDay |-> <<>>]
    /\ responses = <<>>
    /\ pc = "extract"
    /\ req \in LibraryCalls
    /\ extracted = None
    /\ articles = None
    /\ calls = <<>>
    /\ outcome = None
    /\ collection = Docs

DirectExtract == ExtractStep(ExtractionReplies)

NextFunctions ==
    \/ DirectExtract
    \/ SearchStep

SpecFunctions == InitFunctions /\ [][NextFunctions]_vars

(***************************************************************************)
(* What the properties below read off the state.                           *)
(***************************************************************************)
StepNames == [i \in 1..Len(calls) |-> calls[i].step]

Searched == Len(calls) >= 2 /\ calls[2].step = "search"

ExtractionReturned == Len(calls) >= 1 /\ extracted # None

NotJson(reply) ==
    reply.kind = "message" /\ reply.content # None /\ ~reply.content.json

(* The bound is given and strptime accepts it / is given and is refused.   *)
BoundValid(key) ==
    /\ key \in DOMAIN extracted.date_filter
    /\ extracted.date_filter[key].t = "str"
    /\ ~Raised(StrptimeText(extracted.date_filter[key].s))

BoundInvalid(key) ==
    key \in DOMAIN extracted.date_filter /\ ~BoundValid(key)

RetrieveNewsEnded ==
    ExtractionReturned /\ req.endpoint = "library" /\ pc = "done"

HasUserMessage ==
    \E i \in 1..Len(calls[1].messages) : calls[1].messages[i].role = "user"

AllRecords == Concat([d \in 1..MaxDay |-> logs[d]])

IsFailure(response) == response.status = 500

(* C1: whenever the extraction model's reply is a text that is not valid   *)
(* JSON, extract_queries_and_date_filters does not raise and returns       *)
(* queries = [], date_filter = {} and an error marker.                     *)
C1_NonJsonFallback ==
    (Len(calls) >= 1 /\ NotJson(calls[1].reply)) =>
        /\ extracted # None
        /\ extracted.queries = JList(<<>>)
        /\ DOMAIN extracted.date_filter = {}
        /\ "error" \in DOMAIN extracted

C1_Witness ==
    /\ pc = "search"
    /\ NotJson(calls[1].reply)
    /\ calls[1].reply.content.s # <<>>
    /\ "error" \in DOMAIN extracted

(* C2: retrieve_news compiles the two bounds independently: an invalid gte *)
(* with a valid lte gives a filter with only lte, an invalid lte with a    *)
(* valid gte gives a filter with only gte, and with no valid bound the     *)
(* search is called with filter None.                                      *)
C2_IndependentBounds ==
    RetrieveNewsEnded =>
        /\ (BoundInvalid("gte") /\ BoundValid("lte")) =>
              /\ Searched
              /\ calls[2].filter # None
              /\ calls[2].filter.must[1].gte = None
              /\ calls[2].filter.must[1].lte # None
        /\ (BoundValid("gte") /\ BoundInvalid("lte")) =>
              /\ Searched
              /\ calls[2].filter # None
              /\ calls[2].filter.must[1].gte # None
              /\ calls[2].filter.must[1].lte = None
        /\ (~BoundValid("gte") /\ ~BoundValid("lte")) =>
              /\ Searched
              /\ calls[2].filter = None

(* C3: in /api/completion and in respond, when extraction returned a       *)
(* non-empty list of queries, the query given to the vector search is the  *)
(* queries joined by single spaces, in order.                              *)
C3_JoinedQueries ==
    ( /\ Searched
      /\ req.endpoint \in {"completion", "respond"}
      /\ extracted.queries.t = "list"
      /\ extracted.queries.items # <<>>
      /\ \A i \in 1..Len(extracted.queries.items) :
             extracted.queries.items[i].t = "str" ) =>
        calls[2].query =
            JoinWith(<<" ">>, [i \in 1..Len(extracted.queries.items) |->
                                  extracted.queries.items[i].s])

(* C4: when extraction yields an empty queries list, the query given to    *)
(* the vector search is the content of the most recent message of the      *)
(* transcript whose role is user (for a transcript that has one).          *)
C4_FallbackIsLastUserMessage ==
    (Searched /\ extracted.queries = JList(<<>>) /\ HasUserMessage) =>
        \E i \in 1..Len(calls[1].messages) :
            /\ calls[1].messages[i].role = "user"
            /\ \A j \in (i + 1)..Len(calls[1].messages) :
                   calls[1].messages[j].role # "user"
            /\ calls[2].query = calls[1].messages[i].content

C4_Witness ==
    /\ Searched
    /\ req.endpoint = "completion"
    /\ extracted.queries = JList(<<>>)
    /\ calls[1].messages[Len(calls[1].messages)].role = "system"
    /\ calls[2].query = TextTwoLines

(* The step in which the vector search of an HTTP request fails.           *)
SearchFails ==
    /\ pc = "search"
    /\ IsHttp(req)
    /\ Len(calls') = 2
    /\ calls'[2].step = "search"
    /\ calls'[2].answer.kind = "error"

(* Exactly one record is appended to the file of the day; nothing else in  *)
(* the logs changes.                                                       *)
OneRecordAppended ==
    /\ Len(logs'[today]) = Len(logs[today]) + 1
    /\ SubSeq(logs'[today], 1, Len(logs[today])) = logs[today]
    /\ \A d \in 1..MaxDay : d # today => logs'[d] = logs[d]

NewRecord == logs'[today][Len(logs'[today])]

ErrorMark == <<"E", "R", "R", "O", "R", ":">>

(* C5, as claimed: when the vector search fails in /api/retrieval or       *)
(* /api/completion the request ends with HTTP 500 and exactly one record   *)
(* is appended whose answer starts with "ERROR:" and whose question        *)
(* contains the query text given to the search.                            *)
C5_QuestionHoldsQueryText ==
    [][SearchFails =>
          /\ outcome'.kind = "http" /\ outcome'.status = 500
          /\ OneRecordAppended
          /\ StartsWith(NewRecord.answer, ErrorMark)
          /\ Contains(NewRecord.question, calls'[2].query)]_vars

(* C5, amended: as above, but the question is the query text itself for    *)
(* /api/retrieval and str() of the message list for /api/completion, which *)
(* holds the query text (the last user message, when there is one) as      *)
(* Python's repr writes it: quoted, with newline, backslash and the quote  *)
(* in use escaped.                                                         *)
C5_QuestionHoldsReprOfQuery ==
    [][SearchFails =>
          /\ outcome'.kind = "http" /\ outcome'.status = 500
          /\ OneRecordAppended
          /\ StartsWith(NewRecord.answer, ErrorMark)
          /\ req.endpoint = "retrieval" =>
                 NewRecord.question = calls'[2].query
          /\ (req.endpoint = "completion" /\ HasUserMessage') =>
                 Contains(NewRecord.question, Repr(calls'[2].query))]_vars

C5_Witness ==
    /\ pc = "done"
    /\ req.endpoint = "completion"
    /\ Searched
    /\ calls[2].answer.kind = "error"
    /\ "\n" \in Chars(calls[2].query)
    /\ outcome.status = 500
    /\ Len(logs[today]) = 2
    /\ ~Contains(logs[today][2].question, calls[2].query)

(* C6: a date bound that is not a valid YYYY-MM-DD date, whatever value    *)
(* the extraction put there, never makes retrieve_news raise: the bound is *)
(* dropped and the search is still performed.                              *)
C6_InvalidBoundDropped ==
    RetrieveNewsEnded =>
        \A key \in {"gte", "lte"} :
            BoundInvalid(key) =>
                /\ Searched
                /\ calls[2].filter # None => calls[2].filter.must[1][key] = None

(* The API key of the request is missing or is not the configured secret.  *)
BadKey ==
    \/ "x-api-key" \notin DOMAIN req.headers
    \/ JStr(req.headers["x-api-key"]) # secret

(* C7: a request whose x-api-key header is missing or differs from the     *)
(* configured secret is answered with HTTP 401; no pipeline step is        *)
(* invoked for it and nothing is appended to the chat log.                 *)
C7_State ==
    (req # None /\ IsHttp(req) /\ pc # "auth" /\ BadKey) =>
        /\ pc = "done"
        /\ outcome.status = 401
        /\ calls = <<>>

C7_Step ==
    (req # None /\ IsHttp(req) /\ BadKey) =>
        /\ logs' = logs
        /\ pc = "done" => responses' = Append(responses,
                              [status |-> 401, detail |-> <<"Invalid API Key">>])

C8_StrictOrder ==
    (req # None /\ req.endpoint \in {"completion", "respond"}) =>
        /\ StepNames \in { <<>>, <<"extract">>, <<"extract", "search">>,
                           <<"extract", "search", "generate">> }
        /\ pc = "search" => (Len(calls) = 1 /\ extracted # None)
        /\ pc = "generate" => Len(calls) = 2
        /\ Len(calls) >= 2 =>
              /\ calls[1].reply.kind = "message"
              /\ extracted # None
        /\ Len(calls) >= 3 =>
              /\ calls[2].answer.kind = "results"
              /\ Len(articles) = Len(calls[2].answer.docs)
              /\ \A i \in 1..Len(articles) :
                     articles[i].title = calls[2].answer.docs[i].page_content
        /\ (pc = "generate" \/ Len(calls) >= 3) =>
              calls[2].answer.kind = "results"

C8_Witness ==
    /\ pc = "done"
    /\ req.endpoint = "completion"
    /\ StepNames = <<"extract", "search", "generate">>
    /\ outcome.status = 200
    /\ Len(articles) = 2

(* C9: retrieve_news never returns more than max_results documents, for    *)
(* any max_results >= 1, and returns them in the order in which the vector *)
(* search ranked them.                                                     *)
C9_AtMostKInRankOrder ==
    (req # None /\ pc = "done" /\ outcome.kind = "returned"
     /\ req.endpoint = "library") =>
        /\ Len(outcome.value) <= req.k
        /\ Len(outcome.value) = Len(calls[2].answer.docs)
        /\ \A i \in 1..Len(outcome.value) :
               outcome.value[i].title = calls[2].answer.docs[i].page_content

C9_Witness ==
    /\ pc = "done"
    /\ req.endpoint = "library"
    /\ outcome.kind = "returned"
    /\ req.k = 2
    /\ Len(outcome.value) = 2
    /\ calls[2].filter = None
    /\ Cardinality(collection) > req.k

(* C10: the chat log changes only when a request fails inside the          *)
(* pipeline: each such request appends exactly one record, a request that  *)
(* succeeds or is rejected with 401 appends none, no record is ever        *)
(* rewritten or removed, and the log holds one record per failed request,  *)
(* in the order in which the requests completed.                           *)
FailedResponses == SelectSeq(responses, IsFailure)

FailingNow == pc = "done" /\ outcome.kind = "http" /\ outcome.status = 500

C10_State ==
    /\ Len(AllRecords) = Len(FailedResponses) + (IF FailingNow THEN 1 ELSE 0)
    /\ \A i \in 1..Len(FailedResponses) :
           AllRecords[i].answer = ErrorMark \o <<" ">> \o FailedResponses[i].detail
    /\ \A d \in 1..MaxDay : \A i \in 1..Len(logs[d]) : logs[d][i].time = d

C10_Step ==
    \/ logs' = logs
    \/ /\ OneRecordAppended
       /\ IsHttp(req)
       /\ pc' = "done"
       /\ outcome'.kind = "http" /\ outcome'.status = 500
       /\ NewRecord.answer = ErrorMark \o <<" ">> \o outcome'.detail

C10_LogHoldsFailures == []C10_State /\ [][C10_Step]_vars

C10_Witness ==
    /\ pc = "idle"
    /\ Len(responses) = 2
    /\ Len(logs[1]) = 2
    /\ logs[1][1] # logs[1][2]

====
